---- MODULE Spec2Model ----
(***************************************************************************)
(* Model of the go.llib.dev redirect-page generators.                      *)
(*                                                                         *)
(* Four generations of the generator live in the repository:              *)
(*   "plain"  src/unnamed/part_000            one project per line         *)
(*   "space"  src/unnamed/part_001:268-425    name [repo], split on \s+    *)
(*   "semi"   src/cmd/generate-go-redirect    name [; import], split on ;  *)
(*   "json"   src/unnamed/part_001:1-266      JSON array of import metas   *)
(*                                                                         *)
(* Strings are sequences of one-character strings, so that trimming,       *)
(* splitting, substring search and prefix stripping are computed, not      *)
(* assumed.  A filesystem path is a sequence of segments (each a string),  *)
(* absolute from the filesystem root <<>>.                                 *)
(***************************************************************************)
EXTENDS Integers, Sequences, FiniteSets, TLC

VARIABLES
  variant,  \* which generation of the generator runs
  env,      \* the required environment variables that are set
  file,     \* the input file: a sequence of lines, or of JSON array elements
  fs0,      \* the output tree before the run: [dirs, files]
  dirs,     \* the directories that exist
  files,    \* the files that exist: path -> content
  pc,       \* position of the run: read, setup, loop, mkdir, write,
            \* submkdir, subwrite, done, aborted
  err,      \* the error the run ended with, or "none"
  records,  \* the list the config reader returned
  idx,      \* the record the loop is at (1-based)
  sub,      \* the nested module the inner loop is at (1-based)
  buf,      \* the rendered buffer of the current record
  io        \* the file-system calls made so far, in order

vars == <<variant, env, file, fs0, dirs, files, pc, err, records, idx, sub, buf, io>>

\* Bounds of the model.
MaxLines == 3
MaxRecords == 3

Min(S) == CHOOSE x \in S : \A y \in S : x <= y
Max(S) == CHOOSE x \in S : \A y \in S : y <= x

(***************************************************************************)
(* Go strings.  A string is a sequence of bytes.  A byte is written as a   *)
(* TLA+ string: a printable ASCII byte as its character, TAB, LF, FF and   *)
(* CR as "\t", "\n", "\f" and "\r", and every other byte as \xHH with its  *)
(* two upper-case hexadecimal digits (the vertical tab is "\\x0B"); the    *)
(* backquote, which a TLA+ string cannot hold, is "\\x60".                 *)
(***************************************************************************)

\* The bytes 0x20..0x7E, in order.
Printable ==
  <<" ", "!", "\"", "#", "$", "%", "&", "'", "(", ")", "*", "+", ",", "-", ".", "/",
     "0", "1", "2", "3", "4", "5", "6", "7", "8", "9", ":", ";", "<", "=", ">", "?",
     "@", "A", "B", "C", "D", "E", "F", "G", "H", "I", "J", "K", "L", "M", "N", "O",
     "P", "Q", "R", "S", "T", "U", "V", "W", "X", "Y", "Z", "[", "\\", "]", "^", "_",
     "\\x60", "a", "b", "c", "d", "e", "f", "g", "h", "i", "j", "k", "l", "m", "n", "o",
     "p", "q", "r", "s", "t", "u", "v", "w", "x", "y", "z", "{", "|", "}", "~">>

\* const upperhex = "0123456789ABCDEF"
upperhex ==
  <<"0", "1", "2", "3", "4", "5", "6", "7", "8", "9", "A", "B", "C", "D", "E", "F">>

\* The byte of value v.
Byte(v) ==
  IF v \in 32..126 THEN Printable[v - 31]
  ELSE CASE v = 9 -> "\t"
         [] v = 10 -> "\n"
         [] v = 12 -> "\f"
         [] v = 13 -> "\r"
         [] OTHER -> "\\x" \o upperhex[(v \div 16) + 1] \o upperhex[(v % 16) + 1]

Bytes == [v \in 0..255 |-> Byte(v)]

\* The value of byte c.
Code(c) == CHOOSE v \in 0..255 : Bytes[v] = c

\* The bytes below utf8.RuneSelf, and the upper-case ASCII letters.
Ascii == {Bytes[v] : v \in 0..127}
UpperCase == {Bytes[v] : v \in 65..90}

\* The UTF-8 encodings of the white-space runes above U+007F: U+0085,
\* U+00A0, U+1680, U+2000..U+200A, U+2028, U+2029, U+202F, U+205F, U+3000.
WideSpace ==
  { <<Bytes[194], Bytes[133]>>, <<Bytes[194], Bytes[160]>>,
    <<Bytes[225], Bytes[154], Bytes[128]>>,
    <<Bytes[226], Bytes[129], Bytes[159]>>,
    <<Bytes[227], Bytes[128], Bytes[128]>> }
  \cup {<<Bytes[226], Bytes[128], Bytes[v]>> : v \in (128..138) \cup {168, 169, 175}}

\* unicode.IsSpace of a rune, the rune given as its UTF-8 bytes.
IsSpace(r) ==
  \/ Len(r) = 1 /\ r[1] \in {"\t", "\n", Bytes[11], "\f", "\r", " "}
  \/ r \in WideSpace

\* strings.TrimLeftFunc(s, unicode.IsSpace): the leading runes are decoded
\* one at a time; a byte that starts no white-space rune stops the trim.
RECURSIVE TrimLeftSpace(_)
TrimLeftSpace(s) ==
  LET ks == {k \in 1..Min({3, Len(s)}) : IsSpace(SubSeq(s, 1, k))}
  IN  IF ks = {} THEN s ELSE TrimLeftSpace(SubSeq(s, Min(ks) + 1, Len(s)))

\* strings.TrimRightFunc(s, unicode.IsSpace)
RECURSIVE TrimRightSpace(_)
TrimRightSpace(s) ==
  LET ks == {k \in 1..Min({3, Len(s)}) : IsSpace(SubSeq(s, Len(s) - k + 1, Len(s)))}
  IN  IF ks = {} THEN s ELSE TrimRightSpace(SubSeq(s, 1, Len(s) - Min(ks)))

\* strings.TrimSpace
TrimSpace(s) == TrimRightSpace(TrimLeftSpace(s))

\* strings.Split(s, sep) for a one-byte separator.
RECURSIVE Split(_, _)
Split(s, sep) ==
  LET at == {i \in 1..Len(s) : s[i] = sep}
  IN  IF at = {} THEN <<s>>
      ELSE <<SubSeq(s, 1, Min(at) - 1)>> \o Split(SubSeq(s, Min(at) + 1, Len(s)), sep)

\* The class \s of package regexp: [\t\n\f\r ].
PerlSpace == {"\t", "\n", "\f", "\r", " "}

\* regexp.MustCompile(`\s+`).Split(s, -1)
RECURSIVE SpaceSplit(_)
SpaceSplit(s) ==
  LET at == {i \in 1..Len(s) : s[i] \in PerlSpace}
  IN  IF at = {} THEN <<s>>
      ELSE LET i == Min(at)
               after == {j \in (i + 1)..Len(s) : s[j] \notin PerlSpace}
               rest == IF after = {} THEN <<>> ELSE SubSeq(s, Min(after), Len(s))
           IN  <<SubSeq(s, 1, i - 1)>> \o SpaceSplit(rest)

\* strings.Contains
Contains(s, part) ==
  \E i \in 0..(Len(s) - Len(part)) : SubSeq(s, i + 1, i + Len(part)) = part

\* strings.HasPrefix
HasPrefix(s, prefix) ==
  Len(prefix) <= Len(s) /\ SubSeq(s, 1, Len(prefix)) = prefix

\* strings.HasSuffix
HasSuffix(s, suffix) ==
  Len(suffix) <= Len(s) /\ SubSeq(s, Len(s) - Len(suffix) + 1, Len(s)) = suffix

\* strings.TrimPrefix
TrimPrefix(s, prefix) ==
  IF HasPrefix(s, prefix) THEN SubSeq(s, Len(prefix) + 1, Len(s)) ELSE s

\* strings.Cut(s, sep) for a one-byte separator: [before, after, found].
Cut(s, sep) ==
  LET at == {i \in 1..Len(s) : s[i] = sep}
  IN  IF at = {} THEN [before |-> s, after |-> <<>>, found |-> FALSE]
      ELSE [before |-> SubSeq(s, 1, Min(at) - 1),
            after |-> SubSeq(s, Min(at) + 1, Len(s)), found |-> TRUE]

\* strings.ToLower of an ASCII string.
ToLower(s) ==
  [i \in 1..Len(s) |-> IF s[i] \in UpperCase THEN Bytes[Code(s[i]) + 32] ELSE s[i]]

\* The get closure of the delimited readers: e[i], or "" past the end.
get(e, i) == IF i < Len(e) THEN e[i + 1] ELSE <<>>

(***************************************************************************)
(* path/filepath: Clean and Join on segment sequences.                     *)
(***************************************************************************)

\* filepath.Clean of a rooted path: "" and "." vanish, ".." pops, and ".."
\* at the root is dropped.
RECURSIVE CleanAbsFrom(_, _)
CleanAbsFrom(segs, stack) ==
  IF segs = <<>> THEN stack
  ELSE LET h == Head(segs)
           t == Tail(segs)
       IN  IF h = <<>> \/ h = <<".">> THEN CleanAbsFrom(t, stack)
           ELSE IF h = <<".", ".">>
                THEN CleanAbsFrom(t, IF stack = <<>> THEN <<>>
                                     ELSE SubSeq(stack, 1, Len(stack) - 1))
                ELSE CleanAbsFrom(t, Append(stack, h))

CleanAbs(segs) == CleanAbsFrom(segs, <<>>)

\* filepath.Clean of a relative path: a leading ".." is kept.
RECURSIVE CleanRelFrom(_, _)
CleanRelFrom(segs, stack) ==
  IF segs = <<>> THEN stack
  ELSE LET h == Head(segs)
           t == Tail(segs)
       IN  IF h = <<>> \/ h = <<".">> THEN CleanRelFrom(t, stack)
           ELSE IF h = <<".", ".">> /\ stack # <<>> /\ stack[Len(stack)] # <<".", ".">>
                THEN CleanRelFrom(t, SubSeq(stack, 1, Len(stack) - 1))
                ELSE CleanRelFrom(t, Append(stack, h))

CleanRel(segs) == CleanRelFrom(segs, <<>>)

\* The segments of a slash-separated string.
Segments(s) == Split(s, "/")

(***************************************************************************)
(* net/url as used by getMetas: url.Parse, the Host field and String.      *)
(* Each function returns [ok, ...], ok being false for a non-nil error.    *)
(*                                                                         *)
(* The repository does not fix the Go release it is built with, and        *)
(* parseHost differs between releases; rel names the release:              *)
(*   "go1.24.7"  up to 1.24.7 and 1.25.1: a host that starts with "[" is   *)
(*               held to the bracket, port and byte rules only;            *)
(*   "go1.25.2"  1.24.8 and 1.25.2: a host that holds a "[" is the IP      *)
(*               literal from its last "[" to its last "]", what stands    *)
(*               before is dropped, and what stands in the brackets must   *)
(*               parse as an IPv6 address that is not IPv4-mapped;         *)
(*   "go1.25.3"  from 1.24.9 and 1.25.3: an IPv4-mapped address is         *)
(*               allowed again (also 1.26 under urlstrictcolons=0);        *)
(*   "go1.26"    a host outside brackets holds at most one colon.          *)
(***************************************************************************)

Releases == {"go1.24.7", "go1.25.2", "go1.25.3", "go1.26"}

Letters == {Bytes[v] : v \in (65..90) \cup (97..122)}

Digits == {Bytes[v] : v \in 48..57}

\* The hexadecimal digits in lower case.
lowerhex ==
  <<"0", "1", "2", "3", "4", "5", "6", "7", "8", "9", "a", "b", "c", "d", "e", "f">>

\* url.ishex and url.unhex
ishex(c) == \E n \in 1..16 : c \in {upperhex[n], lowerhex[n]}

unhex(c) == (CHOOSE n \in 1..16 : c \in {upperhex[n], lowerhex[n]}) - 1

\* The byte unhex(h1)<<4 | unhex(h2).
hexByte(h1, h2) == Bytes[16 * unhex(h1) + unhex(h2)]

\* strings.LastIndex and strings.Index, counted from 1; 0 when absent.
LastIndex(s, c) ==
  IF \E i \in 1..Len(s) : s[i] = c THEN Max({i \in 1..Len(s) : s[i] = c}) ELSE 0

Index(s, part) ==
  IF Contains(s, part)
  THEN Min({i \in 1..(Len(s) - Len(part) + 1) : SubSeq(s, i, i + Len(part) - 1) = part})
  ELSE 0

\* url.shouldEscape(c, mode)
shouldEscape(c, mode) ==
  IF c \in Letters \cup Digits THEN FALSE
  ELSE IF mode \in {"encodeHost", "encodeZone"}
          /\ c \in {"!", "$", "&", "'", "(", ")", "*", "+", ",", ";", "=", ":",
                    "[", "]", "<", ">", "\""}
  THEN FALSE
  ELSE IF c \in {"-", "_", ".", "~"} THEN FALSE
  ELSE IF c \in {"$", "&", "+", ",", "/", ":", ";", "=", "?", "@"}
          /\ mode \in {"encodePath", "encodeUserPassword", "encodeFragment"}
  THEN CASE mode = "encodePath" -> c = "?"
         [] mode = "encodeUserPassword" -> c \in {"@", "/", "?", ":"}
         [] mode = "encodeFragment" -> FALSE
  ELSE IF mode = "encodeFragment" /\ c \in {"!", "(", ")", "*"} THEN FALSE
  ELSE TRUE

\* url.unescape, the test of one %XX: a host escapes only bytes from 0x80 up
\* and %25, a zone only %25, the blank and what a host may hold unescaped.
escapeAllowed(triple, mode) ==
  CASE mode = "encodeHost" -> unhex(triple[2]) >= 8 \/ triple = <<"%", "2", "5">>
    [] mode = "encodeZone" ->
         \/ triple = <<"%", "2", "5">>
         \/ hexByte(triple[2], triple[3]) = " "
         \/ ~shouldEscape(hexByte(triple[2], triple[3]), "encodeHost")
    [] OTHER -> TRUE

\* url.unescape(s, mode), the first loop: every % is followed by two
\* hexadecimal digits and is an allowed escape, and a host holds no ASCII
\* byte that shouldEscape rejects.
escapesValid(s, mode) ==
  \A i \in 1..Len(s) :
    IF s[i] = "%"
    THEN /\ i + 2 <= Len(s) /\ ishex(s[i + 1]) /\ ishex(s[i + 2])
         /\ escapeAllowed(SubSeq(s, i, i + 2), mode)
    ELSE (mode \in {"encodeHost", "encodeZone"} /\ s[i] \in Ascii)
         => ~shouldEscape(s[i], "encodeHost")

\* url.unescape(s, mode), the second loop: each %XX becomes its byte.
RECURSIVE unescaped(_)
unescaped(s) ==
  IF s = <<>> THEN <<>>
  ELSE IF s[1] = "%"
  THEN <<hexByte(s[2], s[3])>> \o unescaped(SubSeq(s, 4, Len(s)))
  ELSE <<s[1]>> \o unescaped(Tail(s))

\* url.unescape(s, mode): [ok, s].
unescape(s, mode) ==
  IF escapesValid(s, mode) THEN [ok |-> TRUE, s |-> unescaped(s)]
  ELSE [ok |-> FALSE, s |-> <<>>]

\* url.escape(s, mode)
RECURSIVE escape(_, _)
escape(s, mode) ==
  IF s = <<>> THEN <<>>
  ELSE (IF shouldEscape(s[1], mode)
        THEN <<"%", upperhex[(Code(s[1]) \div 16) + 1], upperhex[(Code(s[1]) % 16) + 1]>>
        ELSE <<s[1]>>)
       \o escape(Tail(s), mode)

\* url.validEncoded(s, mode)
validEncoded(s, mode) ==
  \A i \in 1..Len(s) :
    \/ s[i] \in {"!", "$", "&", "'", "(", ")", "*", "+", ",", ";", "=", ":", "@",
                 "[", "]", "%"}
    \/ ~shouldEscape(s[i], mode)

\* url.stringContainsCTLByte: a byte below ' ', or 0x7f.
ControlBytes == {Bytes[v] : v \in (0..31) \cup {127}}

stringContainsCTLByte(s) == \E i \in 1..Len(s) : s[i] \in ControlBytes

\* url.validUserinfo
validUserinfo(s) ==
  \A i \in 1..Len(s) :
    s[i] \in Letters \cup Digits \cup
             {"-", ".", "_", ":", "~", "!", "$", "&", "'", "(", ")", "*", "+", ",",
              ";", "=", "%", "@"}

\* url.validOptionalPort
validOptionalPort(port) ==
  \/ port = <<>>
  \/ port[1] = ":" /\ \A i \in 2..Len(port) : port[i] \in Digits

\* *url.Userinfo; `set` is false for the nil pointer.
NoUser == [set |-> FALSE, username |-> <<>>, password |-> <<>>, passwordSet |-> FALSE]

NoURL ==
  [Scheme |-> <<>>, Opaque |-> <<>>, User |-> NoUser, Host |-> <<>>, Path |-> <<>>,
   RawPath |-> <<>>, OmitHost |-> FALSE, ForceQuery |-> FALSE, RawQuery |-> <<>>,
   Fragment |-> <<>>, RawFragment |-> <<>>]

\* An error return of the parsing functions.
ParseError == [ok |-> FALSE, url |-> NoURL]
HostError == [ok |-> FALSE, s |-> <<>>]
AuthorityError == [ok |-> FALSE, user |-> NoUser, host |-> <<>>]

\* url.getScheme: [ok, scheme, rest].
getScheme(s) ==
  LET stop == {i \in 1..Len(s) :
                 ~(s[i] \in Letters \/ (i > 1 /\ s[i] \in Digits \cup {"+", "-", "."}))}
  IN  IF stop = {} \/ s[Min(stop)] # ":"
      THEN [ok |-> TRUE, scheme |-> <<>>, rest |-> s]
      ELSE IF Min(stop) = 1
           THEN [ok |-> FALSE, scheme |-> <<>>, rest |-> s]
           ELSE [ok |-> TRUE, scheme |-> SubSeq(s, 1, Min(stop) - 1),
                 rest |-> SubSeq(s, Min(stop) + 1, Len(s))]

\* url.parseHost, a host with a zone: host[:zone], host[zone:i] and host[i:]
\* unescaped apart.
joinUnescaped(host1, host2, host3) ==
  IF host1.ok /\ host2.ok /\ host3.ok
  THEN [ok |-> TRUE, s |-> host1.s \o host2.s \o host3.s]
  ELSE HostError

\* The number a run of digits stands for in a base.
RECURSIVE number(_, _)
number(digits, base) ==
  IF digits = <<>> THEN 0
  ELSE base * number(SubSeq(digits, 1, Len(digits) - 1), base) + unhex(digits[Len(digits)])

\* netip.Addr as far as parseHost looks at it: whether it is an IPv4
\* address, and the eight 16-bit fields of an IPv6 address.
AddrError == [ok |-> FALSE, is4 |-> FALSE, ip |-> <<>>]

\* netip.parseIPv4Fields: four decimal fields of at most 255 without a
\* leading zero, separated by dots; [ok, fields].
parseIPv4Fields(s) ==
  LET fields == Split(s, ".")
  IN  IF /\ Len(fields) = 4
         /\ \A f \in 1..4 :
              /\ fields[f] # <<>>
              /\ \A k \in 1..Len(fields[f]) : fields[f][k] \in Digits
              /\ Len(fields[f]) > 1 => fields[f][1] # "0"
              /\ Len(fields[f]) <= 3
              /\ number(fields[f], 10) <= 255
      THEN [ok |-> TRUE, fields |-> [f \in 1..4 |-> number(fields[f], 10)]]
      ELSE [ok |-> FALSE, fields |-> <<>>]

\* netip.parseIPv4
parseIPv4(s) ==
  IF parseIPv4Fields(s).ok THEN [ok |-> TRUE, is4 |-> TRUE, ip |-> <<>>] ELSE AddrError

\* netip.parseIPv6, after the loop: the whole string is used, and "::"
\* stands for the fields that are missing, at least one.  ellipsis is the
\* number of fields before "::", or -1.
expandEllipsis(s, ip, ellipsis) ==
  IF s # <<>> THEN AddrError
  ELSE IF Len(ip) < 8
  THEN IF ellipsis < 0 THEN AddrError
       ELSE [ok |-> TRUE, is4 |-> FALSE,
             ip |-> SubSeq(ip, 1, ellipsis) \o [k \in 1..(8 - Len(ip)) |-> 0]
                    \o SubSeq(ip, ellipsis + 1, Len(ip))]
  ELSE IF ellipsis >= 0 THEN AddrError
  ELSE [ok |-> TRUE, is4 |-> FALSE, ip |-> ip]

\* netip.parseIPv6, the embedded IPv4 address that ends s: two fields.
embeddedIPv4(v4, ip, ellipsis) ==
  IF ~v4.ok THEN AddrError
  ELSE expandEllipsis(<<>>,
                      ip \o <<256 * v4.fields[1] + v4.fields[2],
                              256 * v4.fields[3] + v4.fields[4]>>,
                      ellipsis)

\* netip.parseIPv6, the loop over the fields: s is what is left to read and
\* ip the fields read.
RECURSIVE parseIPv6Fields(_, _, _)

\* After a field: the end, or a colon and more, or "::".
afterField(s, ip, ellipsis) ==
  IF s = <<>> THEN expandEllipsis(<<>>, ip, ellipsis)
  ELSE IF s[1] # ":" \/ Len(s) = 1 THEN AddrError
  ELSE IF s[2] # ":" THEN parseIPv6Fields(Tail(s), ip, ellipsis)
  ELSE IF ellipsis >= 0 THEN AddrError
  ELSE IF Len(s) = 2 THEN expandEllipsis(<<>>, ip, Len(ip))
  ELSE parseIPv6Fields(SubSeq(s, 3, Len(s)), ip, Len(ip))

\* A field of off hexadecimal digits, one to four, or the embedded IPv4
\* address when a dot follows them.
hexField(s, off, ip, ellipsis) ==
  IF off = 0 \/ off > 4 THEN AddrError
  ELSE IF off < Len(s) /\ s[off + 1] = "."
  THEN IF (ellipsis < 0 /\ Len(ip) # 6) \/ Len(ip) + 2 > 8 THEN AddrError
       ELSE embeddedIPv4(parseIPv4Fields(s), ip, ellipsis)
  ELSE afterField(SubSeq(s, off + 1, Len(s)),
                  Append(ip, number(SubSeq(s, 1, off), 16)), ellipsis)

parseIPv6Fields(s, ip, ellipsis) ==
  IF Len(ip) >= 8 THEN expandEllipsis(s, ip, ellipsis)
  ELSE hexField(s,
                IF \A k \in 1..Len(s) : ishex(s[k]) THEN Len(s)
                ELSE Min({k \in 1..Len(s) : ~ishex(s[k])}) - 1,
                ip, ellipsis)

\* netip.parseIPv6, s being the address without its zone.
parseIPv6NoZone(s) ==
  IF HasPrefix(s, <<":", ":">>)
  THEN IF Len(s) = 2 THEN [ok |-> TRUE, is4 |-> FALSE, ip |-> [k \in 1..8 |-> 0]]
       ELSE parseIPv6Fields(SubSeq(s, 3, Len(s)), <<>>, 0)
  ELSE parseIPv6Fields(s, <<>>, -1)

\* netip.parseIPv6: a zone after "%" is not empty.
parseIPv6(in) ==
  IF Cut(in, "%").found /\ Cut(in, "%").after = <<>> THEN AddrError
  ELSE parseIPv6NoZone(Cut(in, "%").before)

\* netip.ParseAddr: the first of ".", ":" and "%" decides.
ParseAddr(s) ==
  LET marks == {k \in 1..Len(s) : s[k] \in {".", ":", "%"}}
  IN  IF marks = {} THEN AddrError
      ELSE CASE s[Min(marks)] = "." -> parseIPv4(s)
             [] s[Min(marks)] = ":" -> parseIPv6(s)
             [] s[Min(marks)] = "%" -> AddrError

\* netip.Addr.Is4In6: ::ffff:0:0/96.
Is4In6(addr) ==
  ~addr.is4 /\ (\A k \in 1..5 : addr.ip[k] = 0) /\ addr.ip[6] = 65535

\* url.parseHost from go1.25.2 on, the address in the brackets: it is no
\* IPv4 address, and in go1.25.2 no IPv4-mapped one either.
validIPLiteral(rel, addr) ==
  addr.ok /\ ~addr.is4 /\ (rel = "go1.25.2" => ~Is4In6(addr))

\* url.parseHost from go1.25.2 on, the hostname between the brackets
\* unescaped: from its first "%25" on it is a zone.
unescapeHostname(hostname, zone) ==
  IF zone = 0 THEN unescape(hostname, "encodeHost")
  ELSE joinUnescaped(unescape(SubSeq(hostname, 1, zone - 1), "encodeHost"),
                     unescape(SubSeq(hostname, zone, Len(hostname)), "encodeZone"),
                     [ok |-> TRUE, s |-> <<>>])

\* url.parseHost from go1.25.2 on: netip.ParseAddr of the unescaped
\* hostname; the host returned is "[" + hostname + "]" + port.
checkIPLiteral(rel, hostname, colonPort) ==
  IF ~hostname.ok THEN HostError
  ELSE IF ~validIPLiteral(rel, ParseAddr(hostname.s)) THEN HostError
  ELSE [ok |-> TRUE, s |-> <<"[">> \o hostname.s \o <<"]">> \o colonPort]

\* url.parseHost from go1.25.2 on, a host that holds a "[": the hostname is
\* host[openBracketIdx+1 : closeBracketIdx], the two being the last "[" and
\* the last "]", and the port what follows the last "]".
parseIPLiteral(rel, host, openBracketIdx, closeBracketIdx) ==
  IF closeBracketIdx = 0 THEN HostError
  ELSE IF ~validOptionalPort(SubSeq(host, closeBracketIdx + 1, Len(host))) THEN HostError
  ELSE checkIPLiteral(rel,
                      unescapeHostname(SubSeq(host, openBracketIdx + 1, closeBracketIdx - 1),
                                       Index(SubSeq(host, openBracketIdx + 1, closeBracketIdx - 1),
                                             <<"%", "2", "5">>)),
                      SubSeq(host, closeBracketIdx + 1, Len(host)))

\* url.parseHost up to go1.24.7, a host that starts with "[": i is the last
\* "]" and zone the first "%25" before it; the host is unescaped whole.
parseBracketedHost(host, i, zone) ==
  IF i = 0 THEN HostError
  ELSE IF ~validOptionalPort(SubSeq(host, i + 1, Len(host))) THEN HostError
  ELSE IF zone = 0 THEN unescape(host, "encodeHost")
  ELSE joinUnescaped(unescape(SubSeq(host, 1, zone - 1), "encodeHost"),
                     unescape(SubSeq(host, zone, i - 1), "encodeZone"),
                     unescape(SubSeq(host, i, Len(host)), "encodeHost"))

\* url.parseHost, a host that is no IP literal: what follows its last colon
\* is a port, and in go1.26 it holds no other colon.
parseRegName(rel, host) ==
  IF rel = "go1.26" /\ Cardinality({i \in 1..Len(host) : host[i] = ":"}) > 1
  THEN HostError
  ELSE IF LastIndex(host, ":") # 0
          /\ ~validOptionalPort(SubSeq(host, LastIndex(host, ":"), Len(host)))
  THEN HostError
  ELSE unescape(host, "encodeHost")

\* url.parseHost: [ok, s].
parseHost(rel, host) ==
  IF rel = "go1.24.7"
  THEN IF HasPrefix(host, <<"[">>)
       THEN parseBracketedHost(host, LastIndex(host, "]"),
                               Index(SubSeq(host, 1, LastIndex(host, "]") - 1),
                                     <<"%", "2", "5">>))
       ELSE parseRegName(rel, host)
  ELSE IF LastIndex(host, "[") # 0
       THEN parseIPLiteral(rel, host, LastIndex(host, "["), LastIndex(host, "]"))
       ELSE parseRegName(rel, host)

\* url.parseAuthority, the userinfo cut at its first colon.
userPassword(c, host) ==
  IF escapesValid(c.before, "encodeUserPassword") /\ escapesValid(c.after, "encodeUserPassword")
  THEN [ok |-> TRUE,
        user |-> [set |-> TRUE, username |-> unescaped(c.before),
                  password |-> unescaped(c.after), passwordSet |-> c.found],
        host |-> host]
  ELSE AuthorityError

\* url.parseAuthority, i being the last "@" and h the parsed host after it.
parseUserinfo(authority, i, h) ==
  IF ~h.ok THEN AuthorityError
  ELSE IF i = 0 THEN [ok |-> TRUE, user |-> NoUser, host |-> h.s]
  ELSE IF ~validUserinfo(SubSeq(authority, 1, i - 1)) THEN AuthorityError
  ELSE userPassword(Cut(SubSeq(authority, 1, i - 1), ":"), h.s)

\* url.parseAuthority: [ok, user, host].
parseAuthority(rel, authority) ==
  parseUserinfo(authority, LastIndex(authority, "@"),
                parseHost(rel, SubSeq(authority, LastIndex(authority, "@") + 1, Len(authority))))

\* (*url.URL).setPath: [ok, url].
setPath(u, p) ==
  IF ~escapesValid(p, "encodePath") THEN ParseError
  ELSE [ok |-> TRUE,
        url |-> [u EXCEPT !.Path = unescaped(p),
                          !.RawPath = IF p = escape(unescaped(p), "encodePath")
                                      THEN <<>> ELSE p]]

\* (*url.URL).setFragment: [ok, url].
setFragment(u, f) ==
  IF ~escapesValid(f, "encodeFragment") THEN ParseError
  ELSE [ok |-> TRUE,
        url |-> [u EXCEPT !.Fragment = unescaped(f),
                          !.RawFragment = IF f = escape(unescaped(f), "encodeFragment")
                                          THEN <<>> ELSE f]]

\* url.parse, the authority parsed: user and host are set, then the path.
parseAfterAuthority(u, auth, path) ==
  IF auth.ok THEN setPath([u EXCEPT !.User = auth.user, !.Host = auth.host], path)
  ELSE ParseError

\* url.parse, rest starting with "//": the authority runs to the next "/".
parseNetPath(rel, u, afterSlashes) ==
  parseAfterAuthority(u, parseAuthority(rel, Cut(afterSlashes, "/").before),
                      IF Cut(afterSlashes, "/").found
                      THEN <<"/">> \o Cut(afterSlashes, "/").after ELSE <<>>)

\* url.parse, scheme and query split off: u holds them, rest is what is left.
parseRest(rel, u, rest) ==
  IF ~HasPrefix(rest, <<"/">>) /\ u.Scheme # <<>>
  THEN [ok |-> TRUE, url |-> [u EXCEPT !.Opaque = rest]]
  ELSE IF ~HasPrefix(rest, <<"/">>) /\ Contains(Cut(rest, "/").before, <<":">>)
  THEN ParseError
  ELSE IF (u.Scheme # <<>> \/ ~HasPrefix(rest, <<"/", "/", "/">>))
          /\ HasPrefix(rest, <<"/", "/">>)
  THEN parseNetPath(rel, u, SubSeq(rest, 3, Len(rest)))
  ELSE setPath([u EXCEPT !.OmitHost = (u.Scheme # <<>> /\ HasPrefix(rest, <<"/">>))], rest)

\* url.parse, the scheme split off: the query is cut from rest.
parseQuery(rel, scheme, rest) ==
  IF HasSuffix(rest, <<"?">>) /\ Cardinality({i \in 1..Len(rest) : rest[i] = "?"}) = 1
  THEN parseRest(rel, [NoURL EXCEPT !.Scheme = scheme, !.ForceQuery = TRUE],
                 SubSeq(rest, 1, Len(rest) - 1))
  ELSE parseRest(rel, [NoURL EXCEPT !.Scheme = scheme, !.RawQuery = Cut(rest, "?").after],
                 Cut(rest, "?").before)

\* url.parse, after getScheme.
parseScheme(rel, sc) ==
  IF ~sc.ok THEN ParseError ELSE parseQuery(rel, ToLower(sc.scheme), sc.rest)

\* url.parse(rawURL, viaRequest = false): [ok, url].
parse(rel, rawURL) ==
  IF stringContainsCTLByte(rawURL) THEN ParseError
  ELSE IF rawURL = <<"*">> THEN [ok |-> TRUE, url |-> [NoURL EXCEPT !.Path = <<"*">>]]
  ELSE parseScheme(rel, getScheme(rawURL))

\* url.Parse, the part before "#" parsed.
parseFragment(parsed, frag) ==
  IF ~parsed.ok \/ frag = <<>> THEN parsed ELSE setFragment(parsed.url, frag)

\* url.Parse: [ok, url].
UrlParse(rel, s) == parseFragment(parse(rel, Cut(s, "#").before), Cut(s, "#").after)

\* (*url.Userinfo).String
UserString(user) ==
  escape(user.username, "encodeUserPassword")
  \o (IF user.passwordSet THEN <<":">> \o escape(user.password, "encodeUserPassword")
      ELSE <<>>)

\* (*url.URL).EscapedPath
EscapedPath(u) ==
  IF u.RawPath # <<>> /\ validEncoded(u.RawPath, "encodePath")
     /\ unescape(u.RawPath, "encodePath") = [ok |-> TRUE, s |-> u.Path]
  THEN u.RawPath
  ELSE IF u.Path = <<"*">> THEN <<"*">>
  ELSE escape(u.Path, "encodePath")

\* (*url.URL).EscapedFragment
EscapedFragment(u) ==
  IF u.RawFragment # <<>> /\ validEncoded(u.RawFragment, "encodeFragment")
     /\ unescape(u.RawFragment, "encodeFragment") = [ok |-> TRUE, s |-> u.Fragment]
  THEN u.RawFragment
  ELSE escape(u.Fragment, "encodeFragment")

\* (*url.URL).String, up to the path: scheme, "//", userinfo and host.
UrlPrefix(u) ==
  (IF u.Scheme # <<>> THEN u.Scheme \o <<":">> ELSE <<>>)
  \o (IF (u.Scheme # <<>> \/ u.Host # <<>> \/ u.User.set)
         /\ ~(u.OmitHost /\ u.Host = <<>> /\ ~u.User.set)
      THEN (IF u.Host # <<>> \/ u.Path # <<>> \/ u.User.set THEN <<"/", "/">> ELSE <<>>)
           \o (IF u.User.set THEN UserString(u.User) \o <<"@">> ELSE <<>>)
           \o escape(u.Host, "encodeHost")
      ELSE <<>>)

\* (*url.URL).String, the path written after the prefix: a "/" between a
\* host and a rootless path, and "./" before a first segment with a colon
\* when nothing precedes it.
UrlPath(u, prefix, path) ==
  IF path # <<>> /\ path[1] # "/" /\ u.Host # <<>> THEN prefix \o <<"/">> \o path
  ELSE IF prefix = <<>> /\ Contains(Cut(path, "/").before, <<":">>)
  THEN <<".", "/">> \o path
  ELSE prefix \o path

\* (*url.URL).String
UrlString(u) ==
  (IF u.Opaque # <<>>
   THEN (IF u.Scheme # <<>> THEN u.Scheme \o <<":">> ELSE <<>>) \o u.Opaque
   ELSE UrlPath(u, UrlPrefix(u), EscapedPath(u)))
  \o (IF u.ForceQuery \/ u.RawQuery # <<>> THEN <<"?">> \o u.RawQuery ELSE <<>>)
  \o (IF u.Fragment # <<>> THEN <<"#">> \o EscapedFragment(u) ELSE <<>>)

\* zerokit.IsZero on a string.
IsZero(s) == s = <<>>

GithubCom == <<"g", "i", "t", "h", "u", "b", ".", "c", "o", "m">>
TreeMasterDir ==
  <<"/", "t", "r", "e", "e", "/", "m", "a", "s", "t", "e", "r", "{", "/", "d", "i", "r", "}">>
FileLine == <<"/", "{", "f", "i", "l", "e", "}", "#", "L", "{", "l", "i", "n", "e", "}">>

(***************************************************************************)
(* The config readers.  A reader returns [failed, recs]; a failed read     *)
(* returns the nil list.                                                   *)
(***************************************************************************)

\* The field-count test of the delimited readers: n == 0 || 2 < n.
BadFieldCountOffByOne(n) == n = 0 \/ 3 < n
BadFieldCount(n) == n = 0 \/ 2 < n

\* part_000 getProjects: every scanned line is a project, verbatim.
getProjectsPlain(lines) == [failed |-> FALSE, recs |-> lines]

\* part_001 getProjects: the scan loop.
RECURSIVE scanProjects(_, _)
scanProjects(lines, acc) ==
  IF lines = <<>> THEN [failed |-> FALSE, recs |-> acc]
  ELSE LET raw == TrimSpace(Head(lines))
           parts == SpaceSplit(raw)
       IN  IF raw = <<>> THEN scanProjects(Tail(lines), acc)
           ELSE IF BadFieldCount(Len(parts)) THEN [failed |-> TRUE, recs |-> <<>>]
           ELSE scanProjects(Tail(lines),
                             Append(acc, [PackageName |-> get(parts, 0),
                                          RepoName |-> get(parts, 1)]))

getProjects(lines) == scanProjects(lines, <<>>)

\* main.go getImports: the scan loop.
RECURSIVE scanImports(_, _)
scanImports(lines, acc) ==
  IF lines = <<>> THEN [failed |-> FALSE, recs |-> acc]
  ELSE LET raw == TrimSpace(Head(lines))
           split == Split(raw, ";")
           parts == [i \in 1..Len(split) |-> TrimSpace(split[i])]
       IN  IF raw = <<>> THEN scanImports(Tail(lines), acc)
           ELSE IF BadFieldCount(Len(parts)) THEN [failed |-> TRUE, recs |-> <<>>]
           ELSE scanImports(Tail(lines),
                            Append(acc, [Name |-> get(parts, 0), Import |-> get(parts, 1)]))

getImports(lines) == scanImports(lines, <<>>)

\* json.Unmarshal(data, &dtos): the file is a JSON array; one element that
\* does not decode into a JSONDTO fails the whole decode.
UnmarshalSkipBad(elems) ==
  [failed |-> FALSE, dtos |-> SelectSeq(elems, LAMBDA e : e.wellFormed)]
Unmarshal(elems) ==
  IF \E i \in 1..Len(elems) : ~elems[i].wellFormed
  THEN [failed |-> TRUE, dtos |-> <<>>]
  ELSE [failed |-> FALSE, dtos |-> elems]

\* The MetaSource of one DTO: homepage and GitHub pattern defaults.
metaSourceFileFromRoot(dto, root) ==
  LET github == Contains(root.Host, GithubCom)
  IN  [HomepageURL |-> IF dto.HomepageURL = <<>> THEN UrlString(root) ELSE dto.HomepageURL,
       DirectoryPattern |-> IF github /\ IsZero(dto.DirectoryPattern)
                            THEN UrlString(root) \o TreeMasterDir
                            ELSE dto.DirectoryPattern,
       FilePattern |-> IF github /\ IsZero(dto.FilePattern)
                       THEN UrlString(root) \o TreeMasterDir \o FileLine
                       ELSE dto.FilePattern]
metaSource(dto, root) ==
  LET home == IF dto.HomepageURL = <<>> THEN UrlString(root) ELSE dto.HomepageURL
      github == Contains(root.Host, GithubCom)
      dir == IF github /\ IsZero(dto.DirectoryPattern)
             THEN UrlString(root) \o TreeMasterDir
             ELSE dto.DirectoryPattern
      filep == IF github /\ IsZero(dto.FilePattern)
               THEN dir \o FileLine
               ELSE dto.FilePattern
  IN  [HomepageURL |-> home, DirectoryPattern |-> dir, FilePattern |-> filep]

\* The Meta built from one DTO whose root-repo URL parsed.
metaOf(dto, root) ==
  [Import |-> [Prefix |-> dto.ImportPrefix, VCS |-> [Name |-> dto.VCS, RepoRoot |-> root]],
   Source |-> metaSource(dto, root),
   Nested |-> [i \in 1..Len(dto.Submodules) |-> [Path |-> dto.Submodules[i]]]]

\* part_001 getMetas: the loop over the decoded DTOs.
RECURSIVE buildMetas(_, _, _)
buildMetas(rel, dtos, acc) ==
  IF dtos = <<>> THEN [failed |-> FALSE, recs |-> acc]
  ELSE LET parsed == UrlParse(rel, Head(dtos).RootRepo)
       IN  IF ~parsed.ok THEN [failed |-> TRUE, recs |-> <<>>]
           ELSE buildMetas(rel, Tail(dtos), Append(acc, metaOf(Head(dtos), parsed.url)))

getMetas(rel, elems) ==
  LET decoded == Unmarshal(elems)
  IN  IF decoded.failed THEN [failed |-> TRUE, recs |-> <<>>]
      ELSE buildMetas(rel, decoded.dtos, <<>>)

\* The reader of each generation; only getMetas parses URLs.
ReadRecords(rel, v, content) ==
  CASE v = "plain" -> getProjectsPlain(content)
    [] v = "space" -> getProjects(content)
    [] v = "semi" -> getImports(content)
    [] v = "json" -> getMetas(rel, content)

(***************************************************************************)
(* Environment, output paths and the filesystem.                           *)
(***************************************************************************)

Variants == {"plain", "space", "semi", "json"}

InputKey(v) == IF v \in {"plain", "space"} THEN "PROJECTS_FILE_PATH" ELSE "IMPORTS_FILE_PATH"

OutDirKey(v) == IF v = "plain" THEN "PROJECT_REDIRECT_DIR" ELSE "WEB_DIR_PATH"

RequiredKeys(v) == {InputKey(v), OutDirKey(v)} \cup (IF v = "json" THEN {"DOMAIN"} ELSE {})

\* os.LookupEnv / env.Lookup: whether the variable is set.
LookupEnvUnset(key) == TRUE
LookupEnv(key) == key \in env

\* The values the set variables hold: DOMAIN, the output root (an absolute
\* directory) and the input file.
Domain == <<"d">>
OutDirPath == << <<"o", "u", "t">> >>
InputPath == << <<"i", "n">> >>

IndexHtml == <<"i", "n", "d", "e", "x", ".", "h", "t", "m", "l">>
DotHtml == <<".", "h", "t", "m", "l">>
CNAME == <<"C", "N", "A", "M", "E">>

\* filepath.Join(outDirPath, s)
JoinOut(s) == CleanAbs(OutDirPath \o Segments(s))

\* strings.TrimPrefix(meta.Import.Prefix, domain+"/")
impPath(meta) == TrimPrefix(meta.Import.Prefix, Domain \o <<"/">>)

\* The condition of the `continue` at the head of the JSON loop.
SkippedNever(meta) == FALSE
Skipped(meta) == ~Contains(meta.Import.Prefix, Domain)

\* dirPath of a record (the generations that write <dir>/index.html).
dirPath(v, rec) ==
  CASE v = "json" -> JoinOut(impPath(rec))
    [] v = "semi" -> JoinOut(rec.Name)
    [] v = "space" -> JoinOut(rec.PackageName)

\* filepath.Join(outDirPath, project) + ".html"
htmlPath(project) ==
  LET p == JoinOut(project)
  IN  IF p = <<>> THEN <<DotHtml>>
      ELSE SubSeq(p, 1, Len(p) - 1) \o <<p[Len(p)] \o DotHtml>>

\* outPath of a record.
outPath(v, rec) ==
  IF v = "plain" THEN htmlPath(rec) ELSE dirPath(v, rec) \o <<IndexHtml>>

\* filepath.Join(path.Split(mod.Path)): the cleaned submodule path, rooted
\* when mod.Path starts with a slash.
modRel(mod) ==
  IF HasPrefix(mod.Path, <<"/">>) THEN CleanAbs(Segments(mod.Path))
  ELSE CleanRel(Segments(mod.Path))

\* modDirPath and modOutPath of a nested module.
modDirPath(meta, mod) == CleanAbs(OutDirPath \o Segments(impPath(meta)) \o modRel(mod))

modOutPath(meta, mod) == modDirPath(meta, mod) \o <<IndexHtml>>

\* os.MkdirAll fails when a component of the path is a file.
MkdirAllBlocked(fsFiles, path) ==
  \E k \in 1..Len(path) : SubSeq(path, 1, k) \in DOMAIN fsFiles

\* The directories os.MkdirAll(path) leaves behind when it succeeds.
MkdirAll(fsDirs, path) == fsDirs \cup {SubSeq(path, 1, k) : k \in 0..Len(path)}

\* os.WriteFile fails on a directory and under a missing parent.
WriteFileBlocked(fsDirs, path) ==
  \/ path = <<>>
  \/ path \in fsDirs
  \/ SubSeq(path, 1, Len(path) - 1) \notin fsDirs

\* os.WriteFile(path, data): create or truncate, then write.
WriteFileKeep(fsFiles, path, data) ==
  IF path \in DOMAIN fsFiles THEN fsFiles ELSE (path :> data) @@ fsFiles
WriteFile(fsFiles, path, data) == (path :> data) @@ fsFiles

\* The files a failed os.WriteFile(path, data) can leave.  The open fails
\* and nothing changes; or the open has created or truncated the file and
\* the write or the close fails, with any leading part of data, none and
\* all of it included, in the file.
WriteFileFailed(fsDirs, fsFiles, path, data) ==
  {fsFiles} \cup
  (IF WriteFileBlocked(fsDirs, path) THEN {}
   ELSE {WriteFile(fsFiles, path, SubSeq(data, 1, n)) : n \in 0..Len(data)})

(***************************************************************************)
(* Rendering.                                                              *)
(***************************************************************************)

\* Project.getRepoName
getRepoName(p) == IF p.RepoName = <<>> THEN p.PackageName ELSE p.RepoName

\* The data handed to tmpl.Execute for a record, as the list of its fields.
TemplateData(v, rec) ==
  CASE v = "plain" -> <<rec>>
    [] v = "space" -> <<rec.PackageName, getRepoName(rec)>>
    [] v = "semi" -> <<rec.Name, rec.Import>>
    [] v = "json" -> <<rec.Import.Prefix, rec.Import.VCS.Name, UrlString(rec.Import.VCS.RepoRoot),
                       rec.Source.HomepageURL, rec.Source.DirectoryPattern,
                       rec.Source.FilePattern>>

\* The embedded template: the content of the go-import tag (prefix vcs
\* repo-root) and, for the JSON generation, of the go-source tag (prefix
\* homepage directory-pattern file-pattern); the older templates print
\* their fields in order.
RECURSIVE JoinFields(_)
JoinFields(fields) ==
  IF Len(fields) = 1 THEN fields[1]
  ELSE fields[1] \o <<" ">> \o JoinFields(Tail(fields))

Render(v, data) ==
  IF v = "json"
  THEN JoinFields(SubSeq(data, 1, 3)) \o <<"\n">>
       \o JoinFields(<<data[1]>> \o SubSeq(data, 4, 6))
  ELSE JoinFields(data)

\* buf.Bytes() as written for a nested module: the parent's buffer.
nestedBytesEmpty(b) == <<>>
nestedBytes(b) == b

(***************************************************************************)
(* Inputs.                                                                 *)
(***************************************************************************)

\* U+00A0, the no-break space, in UTF-8.
NBSP == <<Bytes[194], Bytes[160]>>

\* The lines of a delimited input file, as bufio.ScanLines yields them: the
\* empty line, the line of one U+00A0, and lines of one, two and three fields
\* under a blank, a form feed or a semicolon.
Lines ==
  { <<>>, NBSP, <<"a">>,
    <<"a", " ", "b">>, <<"a", "\f", "b">>,
    <<"a", " ", "b", " ", "c">>, <<"a", ";", "b", ";", "c">>,
    <<";", "b">>, <<" ", "a", " ", ";", " ", "b", " ">> }

Https == <<"h", "t", "t", "p", "s", ":", "/", "/">>
RootGithub == Https \o GithubCom \o <<"/", "r">>
RootGitlab == Https \o <<"g", "i", "t", "l", "a", "b", ".", "c", "o", "m", "/", "r">>
RootNoScheme == GithubCom \o <<"/", "r">>
RootNetPath == <<"/", "/">> \o GithubCom \o <<"/", "r">>
RootInvalid == <<":", "r">>
RootUpper == <<"H", "T", "T", "P", "S", ":", "/", "/">> \o GithubCom \o <<"/", "r">>
RootBadHost == Https \o <<"g", "i", "t", "^", "h", "u", "b", ".", "c", "o", "m", "/", "r">>
RootControl == GithubCom \o <<"/", "\t", "r">>
RootEscaped == Https \o GithubCom \o <<"/", "%", "4", "1">>
RootBlank == Https \o GithubCom \o <<"/", "a", " ", "b">>
RootUser == Https \o <<"u", "@">> \o GithubCom \o <<"/", "r", "?", "x", "#", "f">>

\* Roots that the releases of net/url treat differently: a name in square
\* brackets, an IPv4-mapped address, and a second colon in the host; and an
\* IPv6 address with a port, which all accept.
RootBracket == Https \o <<"[">> \o GithubCom \o <<"]", "/", "r">>
RootMapped == Https \o <<"[", ":", ":", "f", "f", "f", "f", ":", "1", ".", "2", ".", "3", ".", "4", "]", "/", "r">>
RootColons == Https \o GithubCom \o <<":", "8", "0", ":", "9", "0", "/", "r">>
RootIPv6 == Https \o <<"[", "f", "e", "8", "0", ":", ":", "1", "]", ":", "8", "0", "/", "r">>

\* Roots with a "[" that is not the first byte of the host: before an IPv6
\* address, and before a name.
RootPrefixed == Https \o GithubCom \o <<"[", ":", ":", "1", "]", "/", "r">>
RootInner == Https \o <<"a", "[">> \o GithubCom \o <<"]", "/", "r">>

\* One element of the JSON array, with the JSONDTO fields it decodes to.
DTO(prefix, root, subs) ==
  [wellFormed |-> TRUE, VCS |-> <<"g", "i", "t">>, ImportPrefix |-> prefix, RootRepo |-> root,
   HomepageURL |-> <<>>, DirectoryPattern |-> <<>>, FilePattern |-> <<>>, Submodules |-> subs]

\* An element that is not a JSON object of that shape.
Malformed == [DTO(<<>>, <<>>, <<>>) EXCEPT !.wellFormed = FALSE]

Elements ==
  { DTO(<<"d", "/", "a">>, RootGitlab, << <<"s">> >>),
    DTO(<<"d", "/", "a">>, RootUpper, <<>>),
    DTO(<<"b">>, RootGithub, << <<"s">> >>),
    DTO(<<"d">>, RootNoScheme, <<>>),
    DTO(<<"d", "/", "b">>, RootInvalid, <<>>),
    DTO(<<"b">>, RootBracket, <<>>),
    DTO(<<"d", "/", "b">>, RootNoScheme, << <<"s">>, <<".", ".", "/", "a">> >>),
    Malformed }

SeqsUpTo(S, n) == UNION {[1..k -> S] : k \in 0..n}

InputFiles(v) ==
  IF v = "json" THEN SeqsUpTo(Elements, MaxRecords) ELSE SeqsUpTo(Lines, MaxLines)

NoFiles == [p \in {} |-> <<>>]
StalePage == <<"s", "t", "a", "l", "e">>

\* The output tree before the run: an empty output directory, or one that
\* holds pages of an earlier run.
Disks ==
  { [dirs |-> {<<>>, OutDirPath}, files |-> NoFiles],
    [dirs |-> {<<>>, OutDirPath, OutDirPath \o << <<"a">> >>},
     files |-> (OutDirPath \o << <<"a">>, IndexHtml >> :> StalePage)
               @@ (OutDirPath \o << <<"a">> \o DotHtml >> :> StalePage)] }

(***************************************************************************)
(* The run.                                                                *)
(***************************************************************************)

Init ==
  /\ variant \in Variants
  /\ env \in SUBSET RequiredKeys(variant)
  /\ file \in InputFiles(variant)
  /\ fs0 \in Disks
  /\ dirs = fs0.dirs
  /\ files = fs0.files
  /\ pc = "read"
  /\ err = "none"
  /\ records = <<>>
  /\ idx = 0
  /\ sub = 0
  /\ buf = <<>>
  /\ io = <<>>

Call(op, path, ok) == [op |-> op, path |-> path, rec |-> idx, ok |-> ok]

\* An error returned by the reader or before the loop: main logs it and exits.
Abort(e) == pc' = "aborted" /\ err' = e /\ UNCHANGED <<idx, sub>>

\* An error returned from inside the loop over the records.
AbortRecordContinue(e) == pc' = "loop" /\ err' = e /\ idx' = idx + 1 /\ sub' = 0
AbortRecord(e) == pc' = "aborted" /\ err' = e /\ UNCHANGED <<idx, sub>>

\* getProjects / getImports / getMetas.
ReadConfig ==
  /\ pc = "read"
  /\ \/ /\ ~LookupEnv(InputKey(variant))
        /\ Abort("env")
        /\ UNCHANGED <<records, io>>
     \/ /\ LookupEnv(InputKey(variant))
        /\ Abort("open")
        /\ io' = io \o <<Call("open", InputPath, FALSE)>>
        /\ UNCHANGED records
     \/ /\ LookupEnv(InputKey(variant))
        /\ Abort("read")
        /\ io' = io \o <<Call("open", InputPath, TRUE), Call("read", InputPath, FALSE)>>
        /\ UNCHANGED records
     \/ /\ LookupEnv(InputKey(variant))
        /\ io' = io \o <<Call("open", InputPath, TRUE), Call("read", InputPath, TRUE)>>
        /\ \E rel \in Releases :
             LET r == ReadRecords(rel, variant, file)
             IN  /\ records' = r.recs
                 /\ IF r.failed THEN Abort("parse")
                    ELSE pc' = "setup" /\ UNCHANGED <<err, idx, sub>>
  /\ UNCHANGED <<variant, env, file, fs0, dirs, files, buf>>

\* generateProjectRedirects up to the loop: the environment, the template
\* and, in the JSON generation, the CNAME file.
Setup ==
  /\ pc = "setup"
  /\ \/ /\ variant = "json" /\ ~LookupEnv("DOMAIN")
        /\ Abort("env")
        /\ UNCHANGED <<files, io>>
     \/ /\ variant = "json" => LookupEnv("DOMAIN")
        /\ ~LookupEnv(OutDirKey(variant))
        /\ Abort("env")
        /\ UNCHANGED <<files, io>>
     \/ /\ variant = "json" => LookupEnv("DOMAIN")
        /\ LookupEnv(OutDirKey(variant))
        /\ Abort("template")
        /\ UNCHANGED <<files, io>>
     \/ /\ variant = "json" => LookupEnv("DOMAIN")
        /\ LookupEnv(OutDirKey(variant))
        /\ variant # "json"
        /\ pc' = "loop" /\ idx' = 1
        /\ UNCHANGED <<err, sub, files, io>>
     \/ /\ variant = "json" /\ LookupEnv("DOMAIN")
        /\ LookupEnv(OutDirKey(variant))
        /\ LET path == OutDirPath \o <<CNAME>>
           IN  \E fault \in BOOLEAN :
                 IF fault \/ WriteFileBlocked(dirs, path)
                 THEN /\ Abort("write")
                      /\ io' = Append(io, Call("write", path, FALSE))
                      /\ files' \in WriteFileFailed(dirs, files, path, Domain)
                 ELSE /\ files' = WriteFile(files, path, Domain)
                      /\ io' = Append(io, Call("write", path, TRUE))
                      /\ pc' = "loop" /\ idx' = 1
                      /\ UNCHANGED <<err, sub>>
  /\ UNCHANGED <<variant, env, file, fs0, dirs, records, buf>>

\* The loop is over: generateProjectRedirects returns nil.
Finish ==
  /\ pc = "loop"
  /\ idx > Len(records)
  /\ pc' = "done"
  /\ UNCHANGED <<variant, env, file, fs0, dirs, files, err, records, idx, sub, buf, io>>

\* The JSON loop skips a record whose import prefix lacks the domain.
SkipRecord ==
  /\ pc = "loop"
  /\ idx <= Len(records)
  /\ variant = "json"
  /\ Skipped(records[idx])
  /\ idx' = idx + 1
  /\ UNCHANGED <<variant, env, file, fs0, dirs, files, pc, err, records, sub, buf, io>>

\* tmpl.Execute(&buf, data)
RenderRecord ==
  /\ pc = "loop"
  /\ idx <= Len(records)
  /\ variant = "json" => ~Skipped(records[idx])
  /\ \/ /\ buf' = Render(variant, TemplateData(variant, records[idx]))
        /\ pc' = IF variant = "plain" THEN "write" ELSE "mkdir"
        /\ UNCHANGED <<err, idx, sub>>
     \/ /\ AbortRecord("render")
        /\ UNCHANGED buf
  /\ UNCHANGED <<variant, env, file, fs0, dirs, files, records, io>>

\* One os.MkdirAll(path) call, where a success continues at `next`.  A
\* failed call may have created some of the missing parents.
Mkdir(path, next) ==
  \E fault \in BOOLEAN :
    IF fault \/ MkdirAllBlocked(files, path)
    THEN /\ AbortRecord("mkdir")
         /\ io' = Append(io, Call("mkdir", path, FALSE))
         /\ \E n \in 0..(Len(path) - 1) :
              /\ ~MkdirAllBlocked(files, SubSeq(path, 1, n))
              /\ dirs' = MkdirAll(dirs, SubSeq(path, 1, n))
    ELSE /\ dirs' = MkdirAll(dirs, path)
         /\ io' = Append(io, Call("mkdir", path, TRUE))
         /\ pc' = next
         /\ UNCHANGED <<err, idx, sub>>

\* ensureDirectory(dirPath)
MkdirRecord ==
  /\ pc = "mkdir"
  /\ Mkdir(dirPath(variant, records[idx]), "write")
  /\ UNCHANGED <<variant, env, file, fs0, files, records, buf>>

\* One os.WriteFile(path, data) call, where a success continues at
\* position <<pc, idx, sub>> = to.
Write(path, data, to) ==
  \E fault \in BOOLEAN :
    IF fault \/ WriteFileBlocked(dirs, path)
    THEN /\ AbortRecord("write")
         /\ io' = Append(io, Call("write", path, FALSE))
         /\ files' \in WriteFileFailed(dirs, files, path, data)
    ELSE /\ files' = WriteFile(files, path, data)
         /\ io' = Append(io, Call("write", path, TRUE))
         /\ pc' = to[1] /\ idx' = to[2] /\ sub' = to[3]
         /\ err' = err

\* os.WriteFile(outPath, buf.Bytes(), 0644), then on to the nested modules
\* or to the next record.
WriteRecord ==
  /\ pc = "write"
  /\ Write(outPath(variant, records[idx]), buf,
           IF variant = "json" /\ records[idx].Nested # <<>>
           THEN <<"submkdir", idx, 1>>
           ELSE <<"loop", idx + 1, sub>>)
  /\ UNCHANGED <<variant, env, file, fs0, dirs, records, buf>>

\* ensureDirectory(modDirPath)
MkdirNested ==
  /\ pc = "submkdir"
  /\ Mkdir(modDirPath(records[idx], records[idx].Nested[sub]), "subwrite")
  /\ UNCHANGED <<variant, env, file, fs0, files, records, buf>>

\* os.WriteFile(modOutPath, buf.Bytes(), 0644)
WriteNested ==
  /\ pc = "subwrite"
  /\ Write(modOutPath(records[idx], records[idx].Nested[sub]), nestedBytes(buf),
           IF sub < Len(records[idx].Nested)
           THEN <<"submkdir", idx, sub + 1>>
           ELSE <<"loop", idx + 1, 0>>)
  /\ UNCHANGED <<variant, env, file, fs0, dirs, records, buf>>

Next ==
  \/ ReadConfig
  \/ Setup
  \/ Finish
  \/ SkipRecord
  \/ RenderRecord
  \/ MkdirRecord
  \/ WriteRecord
  \/ MkdirNested
  \/ WriteNested

Spec == Init /\ [][Next]_vars

(***************************************************************************)
(* getMetas on its own, over every combination of set and unset optional   *)
(* fields and every shape of repository root.                              *)
(***************************************************************************)

RootRepos ==
  { RootGithub, RootGitlab, RootNoScheme, RootNetPath, RootInvalid, <<>>,
    RootUpper, RootBadHost, RootControl, RootEscaped, RootBlank, RootUser,
    RootBracket, RootMapped, RootColons, RootIPv6, RootPrefixed, RootInner }

OptionalValues == {<<>>, <<"x">>}

MetaDTOs ==
  { [DTO(<<"d", "/", "a">>, root, << <<"s">> >>)
       EXCEPT !.HomepageURL = home, !.DirectoryPattern = dir, !.FilePattern = filep] :
    root \in RootRepos, home \in OptionalValues, dir \in OptionalValues,
    filep \in OptionalValues }

InitMetas ==
  /\ variant = "json"
  /\ env \in SUBSET RequiredKeys("json")
  /\ file \in {<<dto>> : dto \in MetaDTOs}
  /\ fs0 = [dirs |-> {<<>>, OutDirPath}, files |-> NoFiles]
  /\ dirs = fs0.dirs
  /\ files = fs0.files
  /\ pc = "read"
  /\ err = "none"
  /\ records = <<>>
  /\ idx = 0
  /\ sub = 0
  /\ buf = <<>>
  /\ io = <<>>

NextMetas == ReadConfig

SpecMetas == InitMetas /\ [][NextMetas]_vars

(***************************************************************************)
(* Vocabulary of the properties.                                           *)
(***************************************************************************)

\* The reader opened and read the file and went on to parse it.
ReaderParsed == pc # "read" /\ err \notin {"env", "open", "read"}

\* The reader returned a record list.
ReaderReturned == ReaderParsed /\ err # "parse"

\* The number of fields of a line under a delimiter of the delimited-line
\* format: a semicolon, or runs of whitespace.
SemiFieldCount(line) == Len(Split(TrimSpace(line), ";"))
SpaceFieldCount(line) == Len(SpaceSplit(TrimSpace(line)))

\* The field count of a line in a generation.  The plain generation reads
\* the same PROJECTS_FILE_PATH file as the whitespace-delimited one.
FieldCount(v, line) == IF v = "semi" THEN SemiFieldCount(line) ELSE SpaceFieldCount(line)

SomeRequiredKeyMissing == RequiredKeys(variant) \ env # {}

Touched == {io[n].op : n \in 1..Len(io)}

DiskUntouched == dirs = fs0.dirs /\ files = fs0.files

\* C1 (as stated): in every generation, the plain one included, a line with
\* more than two fields makes the reader return a parse error and no records.
C1_EveryVariantRejects ==
  (variant # "json" /\ ReaderParsed
     /\ \E i \in 1..Len(file) : FieldCount(variant, file[i]) > 2)
  => (err = "parse" /\ records = <<>>)

\* C1 (amended): in the whitespace-delimited and the semicolon-delimited
\* generation a line with more than two fields makes the reader return a
\* parse error and no record list; the plain generation does not split its
\* lines, never returns a parse error and returns every line as a record.
C1_DelimitedVariantsReject ==
  /\ (variant \in {"space", "semi"} /\ ReaderParsed
        /\ \E i \in 1..Len(file) : FieldCount(variant, file[i]) > 2)
     => (err = "parse" /\ pc = "aborted" /\ records = <<>>)
  /\ (variant = "plain" /\ ReaderParsed) => (err # "parse" /\ records = file)

C1_Witness ==
  /\ variant = "space"
  /\ err = "parse"
  /\ Len(file) = 2
  /\ FieldCount("space", file[1]) = 2
  /\ FieldCount("space", file[2]) = 3

\* C2 (as stated): with a required environment variable missing the run
\* aborts before any file I/O: nothing was opened, read, created or written.
\* (Stated for the runs whose input I/O does not itself fail.)
C2_NoIOAtAll ==
  (SomeRequiredKeyMissing /\ err \notin {"open", "read"})
  => (io = <<>> /\ DiskUntouched /\ pc \in {"read", "aborted"})

\* C2 (amended): with a required environment variable missing the run aborts
\* with an error before any mkdir or write, and no file is written; the input
\* file is not touched when its own variable is the missing one, but it has
\* been opened and read when only the output directory or DOMAIN is missing.
C2_NoWriteWhenEnvMissing ==
  SomeRequiredKeyMissing =>
    /\ pc \in {"read", "setup", "aborted"}
    /\ pc = "aborted" => err \in {"env", "open", "read", "parse"}
    /\ Touched \subseteq {"open", "read"}
    /\ DiskUntouched
    /\ InputKey(variant) \notin env => io = <<>>
    /\ (pc = "aborted" /\ InputKey(variant) \in env /\ err = "env")
         => Touched = {"open", "read"}

C2_Witness ==
  /\ variant = "json"
  /\ env = {"IMPORTS_FILE_PATH", "WEB_DIR_PATH"}
  /\ pc = "aborted"
  /\ err = "env"
  /\ Len(records) = 2
  /\ Touched = {"open", "read"}

\* The root-repo strings of the inputs that are no valid URL in any release
\* of net/url, and those that are none in some release.
InvalidRoots ==
  {root \in RootRepos \cup {e.RootRepo : e \in Elements} :
     \A rel \in Releases : ~UrlParse(rel, root).ok}

DisputedRoots ==
  {root \in RootRepos \cup {e.RootRepo : e \in Elements} :
     \E rel \in Releases : ~UrlParse(rel, root).ok}

\* The input holds a parse error: a line with a wrong field count, an
\* element that is not valid JSON for a DTO, or an invalid root-repo URL.
HasParseError ==
  CASE variant = "json" ->
         \E i \in 1..Len(file) : ~file[i].wellFormed \/ file[i].RootRepo \in InvalidRoots
    [] variant \in {"space", "semi"} ->
         \E i \in 1..Len(file) : FieldCount(variant, file[i]) > 2
    [] variant = "plain" -> FALSE

\* C3: a parse error anywhere in the input aborts the run with that error
\* and without partial success: no record list is returned, no record is
\* rendered, and nothing is created or written in the output tree.  The
\* same holds of every parse error the reader reports, so also of a root
\* that only the release at hand rejects.
C3_ParseErrorAbortsAll ==
  /\ HasParseError =>
       /\ pc \in {"read", "aborted"}
       /\ ReaderParsed => (pc = "aborted" /\ err = "parse" /\ records = <<>>)
       /\ buf = <<>>
       /\ Touched \subseteq {"open", "read"}
       /\ DiskUntouched
  /\ err = "parse" =>
       /\ pc = "aborted" /\ records = <<>> /\ buf = <<>>
       /\ Touched \subseteq {"open", "read"}
       /\ DiskUntouched

C3_Witness ==
  /\ variant = "json"
  /\ Len(file) = 2
  /\ file[1].wellFormed /\ file[1].RootRepo \notin DisputedRoots
  /\ Contains(file[1].ImportPrefix, Domain)
  /\ ~file[2].wellFormed
  /\ RequiredKeys("json") \subseteq env
  /\ pc = "aborted"
  /\ err = "parse"

\* The identifying name of a record.
NameOf(v, rec) ==
  CASE v = "plain" -> rec
    [] v = "space" -> rec.PackageName
    [] v = "semi" -> rec.Name
    [] v = "json" -> rec.Import.Prefix

\* C4: every record the reader returns has a non-empty name, and blank
\* lines produce no record.
C4_NamesNonEmpty ==
  ReaderReturned =>
    /\ \A i \in 1..Len(records) : NameOf(variant, records[i]) # <<>>
    /\ variant # "json" =>
         Len(records) = Cardinality({i \in 1..Len(file) : TrimSpace(file[i]) # <<>>})

\* The paths a record asks to write, in program order: its page, then one
\* per nested module; none for a record the JSON loop passes over.  The
\* writes a record asks for put the record's page at each of them.
RecordPaths(v, rec) ==
  IF v = "json" /\ ~Contains(rec.Import.Prefix, Domain) THEN <<>>
  ELSE <<outPath(v, rec)>>
       \o (IF v = "json"
           THEN [j \in 1..Len(rec.Nested) |-> modOutPath(rec, rec.Nested[j])]
           ELSE <<>>)

RecordWrites(v, rec) ==
  LET page == Render(v, TemplateData(v, rec))
      paths == RecordPaths(v, rec)
  IN  [n \in 1..Len(paths) |-> [path |-> paths[n], data |-> page]]

\* The paths a record writes to.
Targets(v, rec) == {RecordPaths(v, rec)[n] : n \in 1..Len(RecordPaths(v, rec))}

\* The writes of the run up to and including record n, the CNAME file first.
RECURSIVE WritesUpTo(_)
WritesUpTo(n) ==
  IF n = 0
  THEN IF variant = "json" THEN <<[path |-> OutDirPath \o <<CNAME>>, data |-> Domain]>>
       ELSE <<>>
  ELSE WritesUpTo(n - 1) \o RecordWrites(variant, records[n])

Paths(ws) == {ws[n].path : n \in 1..Len(ws)}

\* Path p holds what the last write of ws to it wrote, or, never written by
\* ws, is as it was before the run.
HoldsLastWrite(p, ws) ==
  LET hits == {n \in 1..Len(ws) : ws[n].path = p}
  IN  IF hits = {}
      THEN IF p \in DOMAIN fs0.files
           THEN p \in DOMAIN files /\ files[p] = fs0.files[p]
           ELSE p \notin DOMAIN files
      ELSE p \in DOMAIN files /\ files[p] = ws[Max(hits)].data

\* C5 (as stated): after a successful JSON run every nested module's
\* index.html equals its parent's index.html, whatever the input.
C5_NestedEqualsParentAlways ==
  (variant = "json" /\ pc = "done") =>
    \A i \in 1..Len(records) : Contains(records[i].Import.Prefix, Domain) =>
      \A j \in 1..Len(records[i].Nested) :
        files[modOutPath(records[i], records[i].Nested[j])]
          = files[outPath("json", records[i])]

\* C5 (amended): after a successful JSON run a nested module's index.html
\* equals its parent's index.html provided no record later in the input
\* writes to either of the two paths (a later write replaces the file).
C5_NestedEqualsParentUnlessOverwritten ==
  (variant = "json" /\ pc = "done") =>
    \A i \in 1..Len(records) : Contains(records[i].Import.Prefix, Domain) =>
      \A j \in 1..Len(records[i].Nested) :
        LET parent == outPath("json", records[i])
            nested == modOutPath(records[i], records[i].Nested[j])
        IN  (\A k \in (i + 1)..Len(records) :
               Targets("json", records[k]) \cap {parent, nested} = {})
            => /\ nested \in DOMAIN files
               /\ parent \in DOMAIN files
               /\ files[nested] = files[parent]
               /\ files[nested] = Render("json", TemplateData("json", records[i]))

C5_Witness ==
  /\ variant = "json"
  /\ pc = "done"
  /\ Len(records) = 2
  /\ Contains(records[1].Import.Prefix, Domain)
  /\ Contains(records[2].Import.Prefix, Domain)
  /\ Len(records[1].Nested) = 2
  /\ \A j \in 1..2 :
       /\ modOutPath(records[1], records[1].Nested[j]) # outPath("json", records[1])
       /\ modOutPath(records[1], records[1].Nested[j])
            \notin Targets("json", records[2])
  /\ outPath("json", records[1]) \notin Targets("json", records[2])
  /\ files[outPath("json", records[1])] # files[outPath("json", records[2])]

\* C6: for a record whose repository-root host contains "github.com" the
\* Meta never has an empty directory or file pattern: an unset directory
\* pattern becomes <repoRoot>/tree/master{/dir}, an unset file pattern becomes
\* <directoryPattern>/{file}#L{line} over the directory pattern in force, set
\* patterns are kept, and an unset homepage becomes the repository root
\* (<repoRoot> being the parsed root URL as url.URL.String prints it).
C6_GithubDefaults ==
  ReaderReturned =>
    \A i \in 1..Len(records) :
      LET dto == file[i]
          src == records[i].Source
          root == UrlString(records[i].Import.VCS.RepoRoot)
      IN  Contains(records[i].Import.VCS.RepoRoot.Host, GithubCom) =>
            /\ src.DirectoryPattern # <<>>
            /\ src.FilePattern # <<>>
            /\ src.DirectoryPattern =
                 IF dto.DirectoryPattern = <<>> THEN root \o TreeMasterDir
                 ELSE dto.DirectoryPattern
            /\ src.FilePattern =
                 IF dto.FilePattern # <<>> THEN dto.FilePattern
                 ELSE IF dto.DirectoryPattern # <<>> THEN dto.DirectoryPattern \o FileLine
                 ELSE root \o TreeMasterDir \o FileLine
            /\ src.HomepageURL = IF dto.HomepageURL = <<>> THEN root ELSE dto.HomepageURL

C6_Witness ==
  /\ ReaderReturned
  /\ Len(records) = 1
  /\ Contains(records[1].Import.VCS.RepoRoot.Host, GithubCom)
  /\ file[1].DirectoryPattern # <<>>
  /\ file[1].FilePattern = <<>>
  /\ file[1].HomepageURL = <<>>
  /\ records[1].Source.FilePattern = file[1].DirectoryPattern \o FileLine

\* The directories a record asks for, with their parents.
RecordDirs(v, rec) ==
  LET asked == IF v = "plain" \/ (v = "json" /\ ~Contains(rec.Import.Prefix, Domain)) THEN {}
               ELSE {dirPath(v, rec)} \cup
                    (IF v = "json"
                     THEN {modDirPath(rec, rec.Nested[j]) : j \in 1..Len(rec.Nested)}
                     ELSE {})
  IN  UNION {{SubSeq(d, 1, k) : k \in 0..Len(d)} : d \in asked}

LoopErrors == {"render", "mkdir", "write"}

\* The writes of record n that the run completed, in program order.
DoneWrites(n) ==
  SubSeq(RecordWrites(variant, records[n]), 1,
         Cardinality({m \in 1..Len(io) : io[m].rec = n /\ io[m].op = "write" /\ io[m].ok}))

\* The run failed in a write: the last call is a write that returned an error.
WriteFailed == io # <<>> /\ io[Len(io)].op = "write" /\ ~io[Len(io)].ok

\* The abort of C7: the run stopped at the failing call of record idx, every
\* call before it succeeded, none was made for a later record, and every
\* directory is one that was there or that records 1..idx ask for.
AbortedAtRecord ==
  /\ pc = "aborted"
  /\ \A n \in 1..Len(io) : io[n].rec <= idx
  /\ err # "render" => (io[Len(io)].rec = idx /\ ~io[Len(io)].ok /\ io[Len(io)].op = err)
  /\ \A n \in 1..(Len(io) - 1) : io[n].ok
  /\ \A d \in dirs :
       d \in fs0.dirs \/ \E i \in 1..idx : d \in RecordDirs(variant, records[i])

\* C7 (as stated): a render, mkdir or write failure at the k-th record aborts
\* the run at once with that error, every file that records 1..k-1 wrote is
\* exactly as they wrote it, and nothing is made for a record after the k-th.
C7_EarlierFilesAsWritten ==
  (err \in LoopErrors /\ idx >= 1) =>
    /\ AbortedAtRecord
    /\ LET earlier == WritesUpTo(idx - 1)
       IN  \A p \in Paths(earlier) : HoldsLastWrite(p, earlier)

\* C7 (amended): a render, mkdir or write failure at the k-th record aborts
\* the run at once with that error and nothing is rolled back: every file is
\* exactly as the completed writes left it, those of records 1..k-1 followed
\* by those the k-th record completed before it failed, a later write to a
\* path replacing an earlier one; the file of a failing write is as they left
\* it or holds a leading part of the k-th record's page.  So a file that
\* records 1..k-1 wrote is as they wrote it unless the k-th record wrote, or
\* failed to write, the same path.  Nothing is made for a record after the
\* k-th.
C7_FailureAbortsNoRollback ==
  (err \in LoopErrors /\ idx >= 1) =>
    /\ AbortedAtRecord
    /\ LET completed == WritesUpTo(idx - 1) \o DoneWrites(idx)
           page == Render(variant, TemplateData(variant, records[idx]))
       IN  /\ \A n \in 1..Len(DoneWrites(idx)) :
                \E m \in 1..Len(io) :
                  io[m].rec = idx /\ io[m].op = "write" /\ io[m].ok
                  /\ io[m].path = DoneWrites(idx)[n].path
           /\ \A p \in DOMAIN files \cup DOMAIN fs0.files \cup Paths(completed) :
                IF WriteFailed /\ p = io[Len(io)].path
                THEN \/ HoldsLastWrite(p, completed)
                     \/ /\ p \in DOMAIN files
                        /\ \E n \in 0..Len(page) : files[p] = SubSeq(page, 1, n)
                ELSE HoldsLastWrite(p, completed)

\* The second record fails in the write of its nested module after it has
\* replaced a page that the first record wrote; the first record's own page
\* stands, and nothing is there for the third.
C7_Witness ==
  /\ variant = "json"
  /\ pc = "aborted"
  /\ err = "write"
  /\ idx = 2
  /\ sub = 1
  /\ Len(records) = 3
  /\ \A i \in 1..3 : Contains(records[i].Import.Prefix, Domain)
  /\ outPath("json", records[2]) \in Targets("json", records[1])
  /\ outPath("json", records[1]) \notin Targets("json", records[2])
  /\ files[outPath("json", records[1])] = Render("json", TemplateData("json", records[1]))
  /\ files[outPath("json", records[2])] = Render("json", TemplateData("json", records[2]))
  /\ files[outPath("json", records[2])] # files[outPath("json", records[1])]
  /\ modOutPath(records[2], records[2].Nested[1]) \in DOMAIN files
  /\ files[modOutPath(records[2], records[2].Nested[1])] = <<>>
  /\ outPath("json", records[3]) \notin DOMAIN files

\* The import prefix with the configured domain prefix stripped.
DomainStripped(prefix) ==
  IF HasPrefix(prefix, Domain)
  THEN TrimPrefix(SubSeq(prefix, Len(Domain) + 1, Len(prefix)), <<"/">>)
  ELSE prefix

\* C8: every processed JSON record's page is written to
\* <outDir>/<p>/index.html, p being the import prefix with the domain prefix
\* stripped, and the domain is never a segment of a directory the run
\* creates under the output directory.
C8_DomainStrippedFromPath ==
  variant = "json" =>
    /\ \A n \in 1..Len(io) :
         (io[n].op = "write" /\ io[n].rec >= 1
            /\ \A m \in 1..(n - 1) : ~(io[m].op = "write" /\ io[m].rec = io[n].rec))
         => io[n].path =
              CleanAbs(OutDirPath \o Segments(DomainStripped(records[io[n].rec].Import.Prefix)))
                \o <<IndexHtml>>
    /\ \A d \in dirs \ fs0.dirs :
         \A k \in (Len(OutDirPath) + 1)..Len(d) : d[k] # Domain

\* C9: the JSON loop passes over a record whose import prefix does not
\* contain the domain: that step writes nothing, creates nothing, makes no
\* call and raises no error, and the loop goes on with the next record.
C9_SkippedRecordIsSilent ==
  [][(variant = "json" /\ pc = "loop" /\ idx <= Len(records)
        /\ ~Contains(records[idx].Import.Prefix, Domain))
     => (/\ files' = files /\ dirs' = dirs /\ io' = io /\ err' = err /\ buf' = buf
         /\ pc' = "loop" /\ idx' = idx + 1)]_vars

C9_Witness ==
  /\ variant = "json"
  /\ pc = "done"
  /\ Len(records) = 2
  /\ ~Contains(records[1].Import.Prefix, Domain)
  /\ records[1].Nested # <<>>
  /\ Contains(records[2].Import.Prefix, Domain)
  /\ \A n \in 1..Len(io) : io[n].rec # 1
  /\ \E n \in 1..Len(io) : io[n].rec = 2 /\ io[n].op = "write" /\ io[n].ok
  /\ outPath("json", records[2]) \in DOMAIN files

\* C10: records are written in input order and a write replaces the file, so
\* after a successful run every path holds what the last write in input order
\* that targets it wrote, and a path no record targets is as it was.
C10_LastWriteWins ==
  pc = "done" =>
    \A p \in DOMAIN files \cup DOMAIN fs0.files \cup Paths(WritesUpTo(Len(records))) :
      HoldsLastWrite(p, WritesUpTo(Len(records)))

C10_Witness ==
  /\ pc = "done"
  /\ variant = "semi"
  /\ Len(records) = 2
  /\ outPath("semi", records[1]) = outPath("semi", records[2])
  /\ Render("semi", TemplateData("semi", records[1]))
       # Render("semi", TemplateData("semi", records[2]))
  /\ outPath("semi", records[1]) \in DOMAIN fs0.files
  /\ files[outPath("semi", records[1])] = Render("semi", TemplateData("semi", records[2]))

====
